---- MODULE Spec2Model ----
(***************************************************************************)
(* Model of src/discrete_time/binomial_model.py: the triangular tree       *)
(* (class BinaryTree) and the binomial pricing engine (class               *)
(* BinomialModel).                                                         *)
(*                                                                         *)
(* Real numbers are modelled as exact rationals [n, d] in lowest terms     *)
(* with d > 0, so that equalities between prices, values and hedges are     *)
(* decided by the arithmetic the code performs and not by rounding.        *)
(* A Python list is a sequence; the cell None is <<>> and a written cell   *)
(* holding v is <<v>>.                                                     *)
(***************************************************************************)
EXTENDS Integers, Sequences, FiniteSets, TLC

\* ------------------------------------------------------------------ bounds

\* Largest horizon T given to BinaryTree(T) and BinomialModel(T, ...).
MaxT == 2

\* ------------------------------------------------------- exact arithmetic

Abs(x) == IF x < 0 THEN -x ELSE x

RECURSIVE GCD(_, _)
GCD(a, b) == IF b = 0 THEN a ELSE GCD(b, a % b)

\* The rational n/d (d # 0) in lowest terms with a positive denominator.
Rat(n, d) ==
    LET g == GCD(Abs(n), Abs(d))
        s == IF d < 0 THEN -1 ELSE 1
    IN  [n |-> (s * n) \div g, d |-> (s * d) \div g]

RInt(i) == [n |-> i, d |-> 1]
RAdd(a, b) == Rat(a.n * b.d + b.n * a.d, a.d * b.d)
RSub(a, b) == Rat(a.n * b.d - b.n * a.d, a.d * b.d)
RMul(a, b) == Rat(a.n * b.n, a.d * b.d)
\* Python's a / b for b # 0.
RDiv(a, b) == Rat(a.n * b.d, a.d * b.n)
RLess(a, b) == a.n * b.d < b.n * a.d

\* Python's x ** e for an integer e >= 0.
RECURSIVE RPow(_, _)
RPow(x, e) == IF e = 0 THEN RInt(1) ELSE RMul(x, RPow(x, e - 1))

\* ------------------------------------------------------------- BinaryTree

None == <<>>
Some(v) == <<v>>

\* BinaryTree.__init__: num_nodes = int((T + 1) * (T + 2) / 2).  The product
\* of two consecutive integers is even, so the float division is exact.
NumNodes(T) == ((T + 1) * (T + 2)) \div 2

\* [None] * num_nodes (the empty list when num_nodes <= 0).
NewData(T) == [i \in 1..NumNodes(T) |-> None]

\* Variant of BtIndex: layer offset t(t-1)/2 instead of t(t+1)/2.
BtIndexShift(t, k) == (t * (t - 1)) \div 2 + k

\* BinaryTree._bt_index: int((t * (t + 1) / 2) + k).
BtIndex(t, k) == (t * (t + 1)) \div 2 + k

\* Python list subscripting data[index]: an index in [-len, len) addresses a
\* cell (a negative one counts from the end), any other raises IndexError.
Addressable(data, index) == -Len(data) <= index /\ index < Len(data)
Position(data, index) == IF index < 0 THEN Len(data) + index + 1 ELSE index + 1

\* BinaryTree.get_data(t, k): the cell read, or IndexError.
GetData(data, t, k) ==
    IF Addressable(data, BtIndex(t, k))
    THEN [kind |-> "value", val |-> data[Position(data, BtIndex(t, k))]]
    ELSE [kind |-> "IndexError", val |-> None]

\* BinaryTree.set_data(value, t, k): the list after the write; the write
\* happens exactly when the index is addressable.
CanSet(data, t, k) == Addressable(data, BtIndex(t, k))
SetData(data, value, t, k) ==
    [data EXCEPT ![Position(data, BtIndex(t, k))] = Some(value)]

\* The nodes of the triangular region of horizon T.
Nodes(T) == {<<t, k>> \in (0..T) \X (0..T) : k <= t}

VARIABLES
    \* --- a BinaryTree used directly by a caller
    bt_made,     \* whether BinaryTree(T) has been called
    bt_T,        \* the T it was given
    bt_data,     \* self.data
    bt_op,       \* the last call made on it: [op, t, k]
    bt_res,      \* what that call did: [kind, val]
    \* --- a BinomialModel and its caller
    status,      \* "none" | "ready" (constructed) | "failed" (__init__ raised)
    args,        \* the arguments given to BinomialModel(...)
    self,        \* the fields T, u, d, S, R and price_process (a tree id)
    heap,        \* the BinaryTree objects: id -> [live, data]
    call,        \* the public method in progress or last finished: [op, phi, t, k]
    pc,          \* position inside the method in progress
    vp,          \* compute_value_process: local value_process (a tree id)
    vt, vk,      \* compute_value_process: loop variables t, k
    hp,          \* compute_all_hedging_portfolios: local hedging_portfolios
    ht, hk,      \* hedging node: arguments t, k (loop variables in the all-nodes method)
    held,        \* the tree the caller keeps from the last call that returned one
    result,      \* what the last finished call returned or raised
    passes,      \* compute_value_process calls made by the method in progress
    written,     \* nodes written by the current compute_value_process, in order
    reads,       \* nodes of value_process read by its last step
    fresh        \* trees allocated by the method in progress

treeVars == <<bt_made, bt_T, bt_data, bt_op, bt_res>>
engineVars == <<status, args, self, heap, call, pc, vp, vt, vk, hp, ht, hk,
                held, result, passes, written, reads, fresh>>
vars == <<treeVars, engineVars>>

\* ---------------------------------------------- BinaryTree used by a caller

Horizons == -1..MaxT
TreeValues == {1}
\* Arguments t, k a caller may pass, valid and invalid.
TreeArgs == -1..(MaxT + 1)

NoOp == [op |-> "none", t |-> 0, k |-> 0]
Ok == [kind |-> "ok", val |-> None]

TreeInit ==
    /\ bt_made = FALSE
    /\ bt_T = 0
    /\ bt_data = <<>>
    /\ bt_op = NoOp
    /\ bt_res = Ok

\* BinaryTree(T)
TreeCreate(T) ==
    /\ ~bt_made
    /\ bt_made' = TRUE
    /\ bt_T' = T
    /\ bt_data' = NewData(T)
    /\ bt_op' = [op |-> "create", t |-> 0, k |-> 0]
    /\ bt_res' = Ok
    /\ UNCHANGED engineVars

\* tree.set_data(value, t, k)
TreeSet(value, t, k) ==
    /\ bt_made
    /\ bt_op' = [op |-> "set", t |-> t, k |-> k]
    /\ IF CanSet(bt_data, t, k)
       THEN /\ bt_data' = SetData(bt_data, value, t, k)
            /\ bt_res' = Ok
       ELSE /\ bt_data' = bt_data
            /\ bt_res' = [kind |-> "IndexError", val |-> None]
    /\ UNCHANGED <<bt_made, bt_T, engineVars>>

\* tree.get_data(t, k)
TreeGet(t, k) ==
    /\ bt_made
    /\ bt_op' = [op |-> "get", t |-> t, k |-> k]
    /\ bt_res' = GetData(bt_data, t, k)
    /\ UNCHANGED <<bt_made, bt_T, bt_data, engineVars>>

\* ------------------------------------------------------- BinomialModel: data

\* Inputs given to BinomialModel(T, u, d, S, R, pu, pd).
Factors == {Rat(1, 2), RInt(1), RInt(2)}
Prices == {RInt(1), RInt(2)}
Rates == {RInt(0), Rat(1, 2), RInt(1)}
Measures == {<<Rat(1, 2), Rat(1, 2)>>, <<Rat(1, 2), Rat(1, 4)>>}

\* Contract functions phi handed to the engine: contingent_claim.put_option
\* and call_option with the strike fixed by the caller.
Payoffs == {[kind |-> "call", strike |-> RInt(1)],
            [kind |-> "put", strike |-> RInt(2)]}
NoPhi == [kind |-> "none", strike |-> RInt(0)]

\* Python's max(0, x).
RMax0(x) == IF RLess(RInt(0), x) THEN x ELSE RInt(0)

\* put_option(asset_price, strike) / call_option(asset_price, strike).
Phi(phi, asset_price) ==
    IF phi.kind = "put"
    THEN RMax0(RSub(phi.strike, asset_price))
    ELSE RMax0(RSub(asset_price, phi.strike))

\* The BinaryTree objects alive in the interpreter, by identity.
TreeIds == 0..3
Dead == [live |-> FALSE, data |-> <<>>]
\* Variant of Alloc: no new object, the first one is handed out again.
AllocShared(h) == 0
Alloc(h) == CHOOSE id \in TreeIds : ~h[id].live /\ \A j \in TreeIds : j < id => h[j].live
\* BinaryTree(T), a new object.
NewTree(h, T) == [h EXCEPT ![Alloc(h)] = [live |-> TRUE, data |-> NewData(T)]]
\* A reference (None or Some(id)) goes out of use: the object is collected.
Drop(h, ref) == IF ref = None THEN h ELSE [h EXCEPT ![ref[1]] = Dead]
DataOf(h, ref) == h[ref[1]].data

\* BinomialModel.compute_martingale_measure
MartingaleMeasure(m) ==
    <<RDiv(RSub(RAdd(RInt(1), m.R), m.d), RSub(m.u, m.d)),
      RDiv(RSub(m.u, RAdd(RInt(1), m.R)), RSub(m.u, m.d))>>

\* The factor written (1 / 1 + self.R) in _compute_value_at_node and in
\* compute_hedging_portfolio_at_node: Python divides first, then adds.
DiscountFactor(m) == RAdd(RDiv(RInt(1), RInt(1)), m.R)

\* _compute_price_process: the value stored at node (t, k).
NodePrice(m, t, k) == RMul(RMul(m.S, RPow(m.u, k)), RPow(m.d, t - k))

\* _compute_price_process: for t in range(T + 1): for k in range(t + 1),
\* from the iteration at (t, k) on.
\* Variant of PriceInnerStop: range(t) instead of range(t + 1).
PriceInnerStopShort(t) == t
PriceInnerStop(t) == t + 1
RECURSIVE PriceLoop(_, _, _, _)
PriceLoop(m, data, t, k) ==
    IF t >= m.T + 1 THEN data
    ELSE IF k >= PriceInnerStop(t) THEN PriceLoop(m, data, t + 1, 0)
    ELSE PriceLoop(m, SetData(data, NodePrice(m, t, k), t, k), t, k + 1)

\* self.price_process after __init__.
PriceProcess(m) == PriceLoop(m, NewData(m.T), 0, 0)

\* An exception leaving a method.
Raised(kind) == [kind |-> kind, val |-> None]
Value(v) == [kind |-> "value", val |-> Some(v)]

\* _compute_value_at_node(t, k, phi, value_process): the value returned,
\* IndexError from a subscript out of range, TypeError from arithmetic on None.
ComputeValueAtNode(m, prices, t, k, phi, values) ==
    IF t = m.T
    THEN LET p == GetData(prices, t, k)
         IN  IF p.kind # "value" THEN Raised(p.kind)
             ELSE IF p.val = None THEN Raised("TypeError")
             ELSE Value(Phi(phi, p.val[1]))
    ELSE LET q == MartingaleMeasure(m)
             up == GetData(values, t + 1, k + 1)
             dn == GetData(values, t + 1, k)
         IN  IF up.kind # "value" THEN Raised(up.kind)
             ELSE IF up.val = None THEN Raised("TypeError")
             ELSE IF dn.kind # "value" THEN Raised(dn.kind)
             ELSE IF dn.val = None THEN Raised("TypeError")
             ELSE Value(RMul(DiscountFactor(m),
                             RAdd(RMul(q[1], up.val[1]), RMul(q[2], dn.val[1]))))

\* The value_process nodes _compute_value_at_node(t, k, ...) reads.
NodeReads(m, t, k) == IF t = m.T THEN {} ELSE {<<t + 1, k + 1>>, <<t + 1, k>>}

\* compute_value_process: for t in range(T, -1, -1): for k in range(t, -1, -1).
\* Variant of ValueOuterStart: range(T - 1, -1, -1), skipping the terminal layer.
ValueOuterStartLate(m) == m.T - 1
ValueOuterStart(m) == m.T
ValueInnerStart(t) == t
ValueLoopDone(t) == t < 0
ValueNextT(t, k) == IF k > 0 THEN t ELSE t - 1
ValueNextK(t, k) == IF k > 0 THEN k - 1 ELSE ValueInnerStart(t - 1)

\* compute_value_process(phi) from the iteration at (t, k) on: the list of
\* the tree returned, or the exception raised.
RECURSIVE ValueLoop(_, _, _, _, _, _)
ValueLoop(m, prices, phi, values, t, k) ==
    IF ValueLoopDone(t) THEN [kind |-> "value", val |-> values]
    ELSE LET r == ComputeValueAtNode(m, prices, t, k, phi, values)
         IN  IF r.kind # "value" THEN r
             ELSE IF ~CanSet(values, t, k) THEN Raised("IndexError")
             ELSE ValueLoop(m, prices, phi, SetData(values, r.val[1], t, k),
                            ValueNextT(t, k), ValueNextK(t, k))

ValueProcess(m, prices, phi) ==
    ValueLoop(m, prices, phi, NewData(m.T), ValueOuterStart(m),
              ValueInnerStart(ValueOuterStart(m)))

\* compute_hedging_portfolio_at_node(t, k, phi), after its value process has
\* been computed into `values`: the pair (x, y), or the exception raised.
HedgeAtNode(m, prices, values, t, k) ==
    LET V_u == GetData(values, t + 1, k + 1)
        V_d == GetData(values, t + 1, k)
        S == GetData(prices, t, k)
    IN  IF V_u.kind # "value" THEN Raised(V_u.kind)
        ELSE IF V_d.kind # "value" THEN Raised(V_d.kind)
        ELSE IF V_u.val = None \/ V_d.val = None THEN Raised("TypeError")
        ELSE IF S.kind # "value" THEN Raised(S.kind)
        ELSE IF S.val = None THEN Raised("TypeError")
        ELSE IF S.val[1].n = 0 THEN Raised("ZeroDivisionError")
        ELSE Value(<<RDiv(RMul(DiscountFactor(m),
                               RSub(RMul(m.u, V_d.val[1]), RMul(m.d, V_u.val[1]))),
                          RSub(m.u, m.d)),
                     RDiv(RMul(RDiv(RInt(1), S.val[1]),
                               RSub(V_u.val[1], V_d.val[1])),
                          RSub(m.u, m.d))>>)

\* ---------------------------------------------------- BinomialModel: actions

NoArgs == [T |-> 0, u |-> RInt(1), d |-> RInt(1), S |-> RInt(1), R |-> RInt(0),
           pu |-> RInt(0), pd |-> RInt(0)]
NoSelf == [T |-> 0, u |-> RInt(1), d |-> RInt(1), S |-> RInt(1), R |-> RInt(0),
           price_process |-> None]
NoCall == [op |-> "none", phi |-> NoPhi, t |-> 0, k |-> 0]
Pending == [kind |-> "pending", val |-> None]

EngineInit ==
    /\ status = "none"
    /\ args = NoArgs
    /\ self = NoSelf
    /\ heap = [id \in TreeIds |-> Dead]
    /\ call = NoCall
    /\ pc = "idle"
    /\ vp = None /\ vt = 0 /\ vk = 0
    /\ hp = None /\ ht = 0 /\ hk = 0
    /\ held = None
    /\ result = Pending
    /\ passes = 0
    /\ written = <<>>
    /\ reads = {}
    /\ fresh = {}

\* The two assert statements of BinomialModel.__init__.
AssertsPass(a) == RAdd(a.pu, a.pd) = RInt(1) /\ RLess(a.d, a.u)

\* BinomialModel(T, u, d, S, R, pu, pd)
Construct(T, u, d, S, R, pu, pd) ==
    LET a == [T |-> T, u |-> u, d |-> d, S |-> S, R |-> R, pu |-> pu, pd |-> pd]
        m == [T |-> T, u |-> u, d |-> d, S |-> S, R |-> R,
              price_process |-> Some(Alloc(heap))]
    IN  /\ status = "none"
        /\ args' = a
        /\ IF AssertsPass(a)
           THEN /\ status' = "ready"
                /\ self' = m
                /\ heap' = [heap EXCEPT ![Alloc(heap)] =
                                [live |-> TRUE, data |-> PriceProcess(m)]]
                /\ result' = Ok
           ELSE /\ status' = "failed"
                /\ result' = Raised("AssertionError")
                /\ UNCHANGED <<self, heap>>
        /\ UNCHANGED <<treeVars, call, pc, vp, vt, vk, hp, ht, hk, held,
                       passes, written, reads, fresh>>

Idle == status = "ready" /\ pc = "idle"
PriceData == DataOf(heap, self.price_process)

\* value_process = BinaryTree(self.T) and the loop variables before the first
\* iteration of compute_value_process, on heap h.
EnterValueProcess(h) ==
    /\ heap' = NewTree(h, self.T)
    /\ vp' = Some(Alloc(h))
    /\ vt' = ValueOuterStart(self)
    /\ vk' = ValueInnerStart(ValueOuterStart(self))
    /\ written' = <<>>
    /\ reads' = {}
    /\ pc' = "value_loop"

\* An exception propagates to the caller: the locals go out of use.
Raise(kind) ==
    /\ result' = Raised(kind)
    /\ heap' = Drop(Drop(heap, vp), hp)
    /\ vp' = None
    /\ hp' = None
    /\ pc' = "idle"

\* model.compute_value_process(phi) is called.
CallValueProcess(phi) ==
    /\ Idle
    /\ call' = [op |-> "value_process", phi |-> phi, t |-> 0, k |-> 0]
    /\ result' = Pending
    /\ passes' = 1
    /\ fresh' = {Alloc(heap)}
    /\ EnterValueProcess(heap)
    /\ UNCHANGED <<treeVars, status, args, self, hp, ht, hk, held>>

\* One iteration of the inner loop of compute_value_process.
ValueStep ==
    /\ pc = "value_loop"
    /\ ~ValueLoopDone(vt)
    /\ reads' = NodeReads(self, vt, vk)
    /\ LET r == ComputeValueAtNode(self, PriceData, vt, vk, call.phi, DataOf(heap, vp))
       IN  IF r.kind = "value" /\ CanSet(DataOf(heap, vp), vt, vk)
           THEN /\ heap' = [heap EXCEPT ![vp[1]].data = SetData(@, r.val[1], vt, vk)]
                /\ written' = Append(written, <<vt, vk>>)
                /\ vt' = ValueNextT(vt, vk)
                /\ vk' = ValueNextK(vt, vk)
                /\ UNCHANGED <<pc, vp, hp, result>>
           ELSE /\ Raise(IF r.kind = "value" THEN "IndexError" ELSE r.kind)
                /\ UNCHANGED <<written, vt, vk>>
    /\ UNCHANGED <<treeVars, status, args, self, call, ht, hk, held, passes, fresh>>

\* compute_value_process returns value_process to the caller of the model,
\* who keeps it in place of the tree kept before.
ValueProcessReturn ==
    /\ pc = "value_loop"
    /\ ValueLoopDone(vt)
    /\ call.op = "value_process"
    /\ result' = [kind |-> "tree", val |-> vp]
    /\ held' = vp
    /\ heap' = Drop(heap, held)
    /\ vp' = None
    /\ pc' = "idle"
    /\ UNCHANGED <<treeVars, status, args, self, call, vt, vk, hp, ht, hk,
                   passes, written, reads, fresh>>

\* compute_value_process returns into compute_hedging_portfolio_at_node.
ValueProcessReturnToHedging ==
    /\ pc = "value_loop"
    /\ ValueLoopDone(vt)
    /\ call.op # "value_process"
    /\ pc' = "hedge"
    /\ UNCHANGED <<treeVars, status, args, self, heap, call, vp, vt, vk, hp, ht, hk,
                   held, result, passes, written, reads, fresh>>

\* model.compute_hedging_portfolio_at_node(t, k, phi) is called.
CallHedgingPortfolio(t, k, phi) ==
    /\ Idle
    /\ call' = [op |-> "hedging_portfolio", phi |-> phi, t |-> t, k |-> k]
    /\ result' = Pending
    /\ ht' = t
    /\ hk' = k
    /\ passes' = 1
    /\ fresh' = {Alloc(heap)}
    /\ EnterValueProcess(heap)
    /\ UNCHANGED <<treeVars, status, args, self, hp, held>>

\* compute_hedging_portfolio_at_node, called by the caller of the model,
\* computes (x, y) and returns it.
HedgingPortfolioReturn ==
    /\ pc = "hedge"
    /\ call.op = "hedging_portfolio"
    /\ LET r == HedgeAtNode(self, PriceData, DataOf(heap, vp), ht, hk)
       IN  IF r.kind = "value"
           THEN /\ result' = [kind |-> "pair", val |-> r.val]
                /\ heap' = Drop(heap, vp)
                /\ vp' = None
                /\ pc' = "idle"
                /\ hp' = hp
           ELSE Raise(r.kind)
    /\ UNCHANGED <<treeVars, status, args, self, call, vt, vk, ht, hk, held,
                   passes, written, reads, fresh>>

\* compute_all_hedging_portfolios: for t in range(T): for k in range(t + 1).
\* Variant of AllLoopDone: range(T - 1), one layer short.
AllLoopDoneEarly(t) == t >= self.T - 1
AllLoopDone(t) == t >= self.T
AllNextT(t, k) == IF k < t THEN t ELSE t + 1
AllNextK(t, k) == IF k < t THEN k + 1 ELSE 0

\* model.compute_all_hedging_portfolios(phi) is called.
CallAllHedgingPortfolios(phi) ==
    /\ Idle
    /\ call' = [op |-> "all_hedging_portfolios", phi |-> phi, t |-> 0, k |-> 0]
    /\ result' = Pending
    /\ heap' = NewTree(heap, self.T - 1)
    /\ hp' = Some(Alloc(heap))
    /\ ht' = 0
    /\ hk' = 0
    /\ passes' = 0
    /\ fresh' = {Alloc(heap)}
    /\ pc' = "all_loop"
    /\ UNCHANGED <<treeVars, status, args, self, vp, vt, vk, held, written, reads>>

\* One iteration of compute_all_hedging_portfolios calls
\* compute_hedging_portfolio_at_node(t, k, phi), which calls compute_value_process.
AllStep ==
    /\ pc = "all_loop"
    /\ ~AllLoopDone(ht)
    /\ passes' = passes + 1
    /\ fresh' = fresh \cup {Alloc(heap)}
    /\ EnterValueProcess(heap)
    /\ UNCHANGED <<treeVars, status, args, self, call, hp, ht, hk, held, result>>

\* compute_hedging_portfolio_at_node returns (x, y) into
\* compute_all_hedging_portfolios, which stores it at (t, k).
AllStore ==
    /\ pc = "hedge"
    /\ call.op = "all_hedging_portfolios"
    /\ LET r == HedgeAtNode(self, PriceData, DataOf(heap, vp), ht, hk)
       IN  IF r.kind = "value" /\ CanSet(DataOf(heap, hp), ht, hk)
           THEN /\ heap' = [Drop(heap, vp) EXCEPT
                               ![hp[1]].data = SetData(@, r.val[1], ht, hk)]
                /\ vp' = None
                /\ ht' = AllNextT(ht, hk)
                /\ hk' = AllNextK(ht, hk)
                /\ pc' = "all_loop"
                /\ UNCHANGED <<hp, result>>
           ELSE /\ Raise(IF r.kind = "value" THEN "IndexError" ELSE r.kind)
                /\ UNCHANGED <<ht, hk>>
    /\ UNCHANGED <<treeVars, status, args, self, call, vt, vk, held,
                   passes, written, reads, fresh>>

\* compute_all_hedging_portfolios returns hedging_portfolios to the caller,
\* who keeps it in place of the tree kept before.
AllReturn ==
    /\ pc = "all_loop"
    /\ AllLoopDone(ht)
    /\ result' = [kind |-> "tree", val |-> hp]
    /\ held' = hp
    /\ heap' = Drop(heap, held)
    /\ hp' = None
    /\ pc' = "idle"
    /\ UNCHANGED <<treeVars, status, args, self, call, vp, vt, vk, ht, hk,
                   passes, written, reads, fresh>>

\* model.compute_martingale_measure(), model.is_complete() and
\* model.is_arbitrage_free(): each returns without touching the model.
Query(op, value) ==
    /\ Idle
    /\ call' = [op |-> op, phi |-> NoPhi, t |-> 0, k |-> 0]
    /\ result' = [kind |-> "value", val |-> Some(value)]
    /\ passes' = 0
    /\ fresh' = {}
    /\ UNCHANGED <<treeVars, status, args, self, heap, pc, vp, vt, vk, hp, ht, hk,
                   held, written, reads>>

CallMartingaleMeasure == Query("martingale_measure", MartingaleMeasure(self))
CallIsComplete == Query("is_complete", TRUE)
IsArbitrageFree(m) == RLess(m.d, RAdd(RInt(1), m.R)) /\ RLess(RAdd(RInt(1), m.R), m.u)
CallIsArbitrageFree == Query("is_arbitrage_free", IsArbitrageFree(self))

\* --------------------------------------------------------- specifications

Init == TreeInit /\ EngineInit

Next ==
    \/ \E T \in Horizons, u \in Factors, d \in Factors, S \in Prices, R \in Rates,
          p \in Measures : Construct(T, u, d, S, R, p[1], p[2])
    \/ \E phi \in Payoffs : CallValueProcess(phi)
    \/ ValueStep
    \/ ValueProcessReturn
    \/ ValueProcessReturnToHedging
    \/ \E t \in 0..MaxT, k \in 0..MaxT, phi \in Payoffs :
          k <= t /\ CallHedgingPortfolio(t, k, phi)
    \/ HedgingPortfolioReturn
    \/ \E phi \in Payoffs : CallAllHedgingPortfolios(phi)
    \/ AllStep
    \/ AllStore
    \/ AllReturn
    \/ CallMartingaleMeasure
    \/ CallIsComplete
    \/ CallIsArbitrageFree

\* The pricing engine and its caller.
Spec == Init /\ [][Next]_vars

TreeNext ==
    \/ \E T \in Horizons : TreeCreate(T)
    \/ \E v \in TreeValues, t \in TreeArgs, k \in TreeArgs : TreeSet(v, t, k)
    \/ \E t \in TreeArgs, k \in TreeArgs : TreeGet(t, k)

\* A triangular tree used directly through create / set / get.
SpecTree == Init /\ [][TreeNext]_vars

\* ------------------------------------------------------------------ claims

ValidNode(T, t, k) == 0 <= t /\ t <= T /\ 0 <= k /\ k <= t
OutOfRangeCall == bt_made /\ bt_T >= 0 /\ bt_op.op \in {"get", "set"}
                  /\ ~ValidNode(bt_T, bt_op.t, bt_op.k)

\* C4: on a tree of horizon T >= 0, every get(t, k) or set(t, k, value) with
\* t outside [0, T] or k outside [0, t] fails with IndexOutOfRange (Python's
\* IndexError is the only out-of-range failure the list can raise).
C4_OutOfRangeFails == OutOfRangeCall => bt_res.kind = "IndexError"

\* C5: a get(t, k) on a valid node whose slot has never been written fails
\* with UninitializedNode instead of returning a value.
C5_UnsetGetFails ==
    (/\ bt_made
     /\ bt_op.op = "get"
     /\ ValidNode(bt_T, bt_op.t, bt_op.k)
     /\ bt_data[BtIndex(bt_op.t, bt_op.k) + 1] = None)
    => bt_res.kind = "UninitializedNode"

\* C7: for every horizon T >= 0 the addressing (t, k) -> t(t+1)/2 + k maps the
\* valid nodes one-to-one onto the indices 0 .. (T+1)(T+2)/2 - 1, and these are
\* exactly the indices of the allocated list.
C7_AddressingBijection ==
    (bt_made /\ bt_T >= 0) =>
        /\ 2 * Len(bt_data) = (bt_T + 1) * (bt_T + 2)
        /\ \A n \in Nodes(bt_T) : BtIndex(n[1], n[2]) \in 0..(Len(bt_data) - 1)
        /\ \A n1 \in Nodes(bt_T), n2 \in Nodes(bt_T) :
              BtIndex(n1[1], n1[2]) = BtIndex(n2[1], n2[2]) => n1 = n2
        /\ \A i \in 0..(Len(bt_data) - 1) :
              \E n \in Nodes(bt_T) : BtIndex(n[1], n[2]) = i

\* A tree of horizon >= 2 with a written last-layer cell.
C7_Witness ==
    /\ bt_made /\ bt_T >= 2
    /\ bt_op = [op |-> "set", t |-> bt_T, k |-> bt_T]
    /\ bt_data[Len(bt_data)] # None

\* C6: a construction with T < 0, pu + pd # 1 or u <= d fails; no model
\* instance results.
C6_InvalidConstructionFails ==
    (/\ status # "none"
     /\ \/ args.T < 0
        \/ RAdd(args.pu, args.pd) # RInt(1)
        \/ ~RLess(args.d, args.u))
    => status = "failed"

\* C3: after construction every node (t, k), 0 <= k <= t <= T, of the price
\* process is set and holds S * u^k * d^(t-k).
C3_PriceProcessFilled ==
    status = "ready" =>
        \A n \in Nodes(self.T) :
            GetData(PriceData, n[1], n[2]) =
                Value(RMul(self.S, RMul(RPow(self.u, n[2]), RPow(self.d, n[1] - n[2]))))

\* A constructed model of horizon >= 2 whose up and down factors differ from 1.
C3_Witness ==
    /\ status = "ready" /\ self.T >= 2
    /\ self.u = RInt(2) /\ self.d = Rat(1, 2) /\ self.S = RInt(2)
    /\ Len(PriceData) = NumNodes(self.T)

ValueProcessReturned ==
    status = "ready" /\ pc = "idle" /\ call.op = "value_process" /\ result.kind = "tree"

\* C1: in the tree returned by value_process(phi), every interior node
\* satisfies value(t,k) = (1/(1+R)) * (qu*value(t+1,k+1) + qd*value(t+1,k)),
\* provided 1 + R # 0.
C1_BackwardRecursion ==
    (ValueProcessReturned /\ RAdd(RInt(1), self.R) # RInt(0)) =>
        LET V == DataOf(heap, held)
            q == MartingaleMeasure(self)
        IN  \A n \in Nodes(self.T - 1) :
                V[BtIndex(n[1], n[2]) + 1] =
                    Some(RMul(RDiv(RInt(1), RAdd(RInt(1), self.R)),
                              RAdd(RMul(q[1], V[BtIndex(n[1] + 1, n[2] + 1) + 1][1]),
                                   RMul(q[2], V[BtIndex(n[1] + 1, n[2]) + 1][1]))))

\* C2: the pair (x, y) returned by hedging_portfolio(t, k, phi) at a node with
\* 0 <= t < T, 0 <= k <= t replicates the value process in both successors:
\* x(1+R) + y*price(t+1,k+1) = value(t+1,k+1), x(1+R) + y*price(t+1,k) = value(t+1,k).
C2_Replication ==
    (/\ status = "ready" /\ pc = "idle"
     /\ call.op = "hedging_portfolio"
     /\ ValidNode(self.T - 1, call.t, call.k)) =>
        /\ result.kind = "pair"
        /\ LET V == ValueProcess(self, PriceData, call.phi).val
               x == result.val[1][1]
               y == result.val[1][2]
               bond == RMul(x, RAdd(RInt(1), self.R))
           IN  \A j \in {call.k, call.k + 1} :
                   RAdd(bond, RMul(y, PriceData[BtIndex(call.t + 1, j) + 1][1]))
                       = V[BtIndex(call.t + 1, j) + 1][1]

Range(seq) == {seq[i] : i \in 1..Len(seq)}
InValueProcess == status = "ready" /\ (pc = "value_loop" \/ call.op = "value_process")

\* C8: during value_process(phi) the nodes are written in strictly decreasing
\* order of t, and of k within a layer, from (T, T) down to (0, 0), and every
\* node of the value tree that a step reads was written earlier in the same call.
C8_BackwardOrder ==
    InValueProcess =>
        /\ \A i \in 1..Len(written), j \in 1..Len(written) :
              i < j => \/ written[i][1] > written[j][1]
                       \/ written[i][1] = written[j][1] /\ written[i][2] > written[j][2]
        /\ Range(written) \subseteq Nodes(self.T)
        /\ reads \subseteq Range(written)
        /\ (pc = "idle" \/ ValueLoopDone(vt)) => Range(written) = Nodes(self.T)

\* A finished value process of horizon >= 2 whose last step read two nodes.
C8_Witness ==
    /\ ValueProcessReturned /\ self.T >= 2
    /\ Len(written) = NumNodes(self.T)
    /\ reads = {<<1, 1>>, <<1, 0>>}

AllReturned ==
    status = "ready" /\ pc = "idle" /\ call.op = "all_hedging_portfolios"
    /\ result.kind = "tree"

\* The tree returned has horizon T - 1 and every node holds the pair that
\* hedging_portfolio computes there from the value process of phi.
AllPairsStored ==
    LET H == DataOf(heap, held)
        V == ValueProcess(self, PriceData, call.phi).val
    IN  /\ 2 * Len(H) = self.T * (self.T + 1)
        /\ \A n \in Nodes(self.T - 1) :
              GetData(H, n[1], n[2]) = HedgeAtNode(self, PriceData, V, n[1], n[2])
        /\ \A i \in 1..Len(H) : H[i] # None

C10_Frame ==
    [][status = "ready" =>
        /\ status' = status
        /\ self' = self
        /\ heap'[self.price_process[1]] = heap[self.price_process[1]]
        /\ (held # None /\ held' = held) => heap'[held[1]] = heap[held[1]]
        /\ \A id \in TreeIds :
              (heap'[id] # heap[id] /\ heap'[id].live) => id \in fresh']_vars

\* A later value process has written nodes while the caller holds an earlier tree.
C10_Witness ==
    /\ status = "ready" /\ held # None /\ pc = "value_loop"
    /\ Len(written) >= 2 /\ self.T >= 1

====
